---- MODULE Spec2Model ----
(***************************************************************************)
(* Model of mstodo_lib::auth::DeviceCodeAuthentication, the OAuth2 device  *)
(* code flow of src/mstodo_lib/auth.rs.  One flow is one sequential async  *)
(* function; its suspension points are the two HTTP round trips and the    *)
(* inter-poll sleep.  The identity provider and the transport are the      *)
(* environment: every round trip nondeterministically yields a transport   *)
(* failure or an HTTP response (status, body).                             *)
(***************************************************************************)
EXTENDS Integers, Sequences, FiniteSets, TLC

(* ------------------------------ bounds --------------------------------- *)
\* largest number of poll requests one flow is followed for
MaxPolls == 4
\* largest interval (seconds) a device-code response carries
MaxInterval == 2
\* largest expires_in (seconds) a device-code response carries
MaxExpires == 2
\* largest number of poll requests each of the concurrent flows is followed for
MaxFlowPolls == 2

(* --------------------------- program constants ------------------------- *)
CLIENT_ID == "c85cbdd1-4823-4bc8-b02e-2f3f7caa9dd7"
API_SCOPE == "offline_access User.Read Tasks.ReadWrite"
DEVICE_CODE_ENDPOINT ==
    "https://login.microsoftonline.com/e620629d-ca12-4421-8f81-ba47552f618d/oauth2/v2.0/devicecode"
AUTH_ENDPOINT ==
    "https://login.microsoftonline.com/e620629d-ca12-4421-8f81-ba47552f618d/oauth2/v2.0/token"
GRANT_TYPE == "urn:ietf:params:oauth:grant-type:device_code"

(* ----------------------- what the provider can send -------------------- *)
DeviceCodes == {"dc1", "dc2"}
AccessTokens == {"tokA", "tokB"}
\* the four codes of AuthorizationError plus one the enum does not know
KnownErrorCodes == {"authorization_pending", "authorization_declined",
                    "bad_verification_code", "expired_token"}
ErrorCodes == KnownErrorCodes \cup {"slow_down"}
\* a 2xx and a non-2xx HTTP status
Statuses == {200, 400}

\* JSON documents of the shape of DeviceCodeAuthenticationResponse
ChallengeBodies ==
    [kind : {"challenge"}, device_code : DeviceCodes,
     interval : 0..MaxInterval, expires_in : 1..MaxExpires]
\* JSON documents of the shape of AuthenticationResponse
TokenBodies == [kind : {"token"}, access_token : AccessTokens]
\* JSON objects with an "error" member; complete = the other five members
\* of DeviceCodeAhenticationError are present too
ErrorBodies == [kind : {"error"}, error : ErrorCodes, complete : BOOLEAN]
\* a body that is not JSON at all
GarbageBodies == {[kind |-> "garbage"]}
Bodies == ChallengeBodies \cup TokenBodies \cup ErrorBodies \cup GarbageBodies

\* Result<reqwest::Response, reqwest::Error> of one send().await
TransportFailure == [ok |-> FALSE]
HttpResponses == [ok : {TRUE}, status : Statuses, body : Bodies]
TransportResults == {TransportFailure} \cup HttpResponses

(* ------------------------------ helpers -------------------------------- *)
\* StatusCode::is_success: 200..=299
IsSuccess(status) == status >= 200 /\ status <= 299

\* the Err of a failed serde deserialization
ParseFail == [kind |-> "parse_fail"]

\* resp_raw.json::<DeviceCodeAuthenticationResponse>()
ParseChallenge(body) ==
    IF body.kind = "challenge"
    THEN [device_code |-> body.device_code, interval |-> body.interval,
          expires_in |-> body.expires_in]
    ELSE ParseFail

\* poll_resp_raw.json::<AuthenticationResponse>()
ParseToken(body) ==
    IF body.kind = "token"
    THEN [access_token |-> body.access_token]
    ELSE ParseFail

\* serde with a catch-all variant: an unknown code read as the first variant
ParseAuthorizationError_CatchAll(code) ==
    CASE code = "authorization_declined" -> "AuthorizationDeclined"
      [] code = "bad_verification_code" -> "BadVerificationCode"
      [] code = "expired_token" -> "ExpiredToken"
      [] OTHER -> "AuthorizationPending"

\* serde snake_case names of the variants of enum AuthorizationError
ParseAuthorizationError(code) ==
    CASE code = "authorization_pending" -> "AuthorizationPending"
      [] code = "authorization_declined" -> "AuthorizationDeclined"
      [] code = "bad_verification_code" -> "BadVerificationCode"
      [] code = "expired_token" -> "ExpiredToken"
      [] OTHER -> "unknown_variant"

\* poll_resp_raw.json::<DeviceCodeAhenticationError>()
ParseError(body) ==
    IF body.kind = "error" /\ body.complete
       /\ ParseAuthorizationError(body.error) # "unknown_variant"
    THEN [error |-> ParseAuthorizationError(body.error)]
    ELSE ParseFail

\* resp_raw.text(): the body as received
Text(body) == [kind |-> "raw_text", of |-> body]

\* e.to_string() of the reqwest decode error: a message about the failure,
\* which does not reproduce the body
DecodeErrorString(body) == [kind |-> "decode_error_message", of |-> body.kind]

\* the variants of error::AuthenticationError
NetworkError(cause) == [kind |-> "NetworkError", payload |-> [kind |-> cause]]
AuthenticationFailed == [kind |-> "AuthenticationFailed", payload |-> [kind |-> "none"]]
UnexpectedResponse(s) == [kind |-> "UnexpectedResponse", payload |-> s]

Ok(v) == [tag |-> "Ok", value |-> v]
Err(e) == [tag |-> "Err", value |-> e]
NoResult == [tag |-> "none", value |-> [kind |-> "none"]]

\* requests::DeviceCodeAuthenticationRequest as built at the start
DeviceCodeAuthenticationRequest ==
    [client_id |-> CLIENT_ID, scope |-> API_SCOPE]

\* the grant type of the refresh request put into the poll request
AuthenticationRequestFrom_RefreshGrant(r) ==
    [client_id |-> CLIENT_ID, device_code |-> r.device_code,
     grant_type |-> "refresh_token"]

\* impl From<&DeviceCodeAuthenticationResponse> for AuthenticationRequest
AuthenticationRequestFrom(r) ==
    [client_id |-> CLIENT_ID, device_code |-> r.device_code,
     grant_type |-> GRANT_TYPE]

(* ------------------------------- state --------------------------------- *)
VARIABLES
    pc,            \* position of the flow: "start", "poll", "sleep", "done"
    resp,          \* the parsed device-code response (the challenge)
    poll_interval, \* Duration::from_secs(resp.interval), in seconds
    result,        \* what authenticate_with_device_code returned
    log,           \* requests sent and sleeps taken, in order
    dcResult,      \* what the transport answered to the device-code request
    pollResults,   \* what the transport answered to each poll request
    cancelAt,      \* Len(log) when the caller asked to abort; -1: not asked
    store,         \* the token records put into the credential store
    flows          \* the locals of each of several concurrent flows

vars == <<pc, resp, poll_interval, result, log, dcResult, pollResults,
          cancelAt, store, flows>>

NoChallenge == [device_code |-> "none", interval |-> 0, expires_in |-> 0]
NoTransportResult == [ok |-> FALSE, status |-> 0]

DcReqEvent == [ev |-> "dc_req", url |-> DEVICE_CODE_ENDPOINT,
               form |-> DeviceCodeAuthenticationRequest, secs |-> 0]
PollReqEvent(req) == [ev |-> "poll_req", url |-> AUTH_ENDPOINT,
                      form |-> req, secs |-> 0]
SleepEvent(d) == [ev |-> "sleep", url |-> "none",
                  form |-> [client_id |-> "none"], secs |-> d]

\* the ids of the flows that run concurrently over one http_client
Flows == {1, 2}

\* the locals of a flow that has not sent anything yet
NoFlow == [pc |-> "start", resp |-> NoChallenge, poll_interval |-> 0,
           result |-> NoResult, log |-> <<>>, dcResult |-> NoTransportResult,
           pollResults |-> <<>>]

Init ==
    /\ pc = "start"
    /\ resp = NoChallenge
    /\ poll_interval = 0
    /\ result = NoResult
    /\ log = <<>>
    /\ dcResult = NoTransportResult
    /\ pollResults = <<>>
    /\ cancelAt = -1
    /\ store = <<>>
    /\ flows = [f \in Flows |-> NoFlow]

(* ------------------------------ actions -------------------------------- *)
\* line 145 with Duration::from_millis: the interval taken as milliseconds
RequestDeviceCode_FromMillis(r) ==
    /\ pc = "start"
    /\ log' = Append(log, DcReqEvent)
    /\ dcResult' = r
    /\ IF ~r.ok
       THEN /\ result' = Err(NetworkError("transport"))
            /\ pc' = "done"
            /\ UNCHANGED <<resp, poll_interval>>
       ELSE IF ~IsSuccess(r.status)
       THEN /\ result' = Err(UnexpectedResponse(Text(r.body)))
            /\ pc' = "done"
            /\ UNCHANGED <<resp, poll_interval>>
       ELSE IF ParseChallenge(r.body) = ParseFail
       THEN /\ result' = Err(NetworkError("decode"))
            /\ pc' = "done"
            /\ UNCHANGED <<resp, poll_interval>>
       ELSE /\ resp' = ParseChallenge(r.body)
            /\ poll_interval' = ParseChallenge(r.body).interval \div 1000
            /\ pc' = "poll"
            /\ UNCHANGED result
    /\ UNCHANGED <<pollResults, cancelAt, store, flows>>

\* auth.rs 128-149: the device-code round trip, up to the entry of the loop
RequestDeviceCode(r) ==
    /\ pc = "start"
    /\ log' = Append(log, DcReqEvent)
    /\ dcResult' = r
    /\ IF ~r.ok
       THEN /\ result' = Err(NetworkError("transport"))
            /\ pc' = "done"
            /\ UNCHANGED <<resp, poll_interval>>
       ELSE IF ~IsSuccess(r.status)
       THEN /\ result' = Err(UnexpectedResponse(Text(r.body)))
            /\ pc' = "done"
            /\ UNCHANGED <<resp, poll_interval>>
       ELSE IF ParseChallenge(r.body) = ParseFail
       THEN /\ result' = Err(NetworkError("decode"))
            /\ pc' = "done"
            /\ UNCHANGED <<resp, poll_interval>>
       ELSE /\ resp' = ParseChallenge(r.body)
            /\ poll_interval' = ParseChallenge(r.body).interval
            /\ pc' = "poll"
            /\ UNCHANGED result
    /\ UNCHANGED <<pollResults, cancelAt, store, flows>>

\* the loop goes on after expired_token as it does after authorization_pending
PollStep_RetryOnExpired(r) ==
    IF ~r.ok
    THEN Err(NetworkError("transport"))
    ELSE IF IsSuccess(r.status)
    THEN IF ParseToken(r.body) = ParseFail
         THEN Err(NetworkError("decode"))
         ELSE Ok(ParseToken(r.body))
    ELSE IF ParseError(r.body) = ParseFail
    THEN Err(UnexpectedResponse(DecodeErrorString(r.body)))
    ELSE IF ParseError(r.body).error \notin {"AuthorizationPending", "ExpiredToken"}
    THEN Err(AuthenticationFailed)
    ELSE NoResult

\* the test of line 171 inverted: == in place of !=
PollStep_InvertedPendingTest(r) ==
    IF ~r.ok
    THEN Err(NetworkError("transport"))
    ELSE IF IsSuccess(r.status)
    THEN IF ParseToken(r.body) = ParseFail
         THEN Err(NetworkError("decode"))
         ELSE Ok(ParseToken(r.body))
    ELSE IF ParseError(r.body) = ParseFail
    THEN Err(UnexpectedResponse(DecodeErrorString(r.body)))
    ELSE IF ParseError(r.body).error = "AuthorizationPending"
    THEN Err(AuthenticationFailed)
    ELSE NoResult

\* a failed send() swallowed: the loop sleeps and polls again
PollStep_RetryOnTransportError(r) ==
    IF ~r.ok
    THEN NoResult
    ELSE IF IsSuccess(r.status)
    THEN IF ParseToken(r.body) = ParseFail
         THEN Err(NetworkError("decode"))
         ELSE Ok(ParseToken(r.body))
    ELSE IF ParseError(r.body) = ParseFail
    THEN Err(UnexpectedResponse(DecodeErrorString(r.body)))
    ELSE IF ParseError(r.body).error # "AuthorizationPending"
    THEN Err(AuthenticationFailed)
    ELSE NoResult

\* the body is parsed as a token before the status is looked at
PollStep_TokenBeforeStatus(r) ==
    IF ~r.ok
    THEN Err(NetworkError("transport"))
    ELSE IF ParseToken(r.body) # ParseFail
    THEN Ok(ParseToken(r.body))
    ELSE IF IsSuccess(r.status)
    THEN Err(NetworkError("decode"))
    ELSE IF ParseError(r.body) = ParseFail
    THEN Err(UnexpectedResponse(DecodeErrorString(r.body)))
    ELSE IF ParseError(r.body).error # "AuthorizationPending"
    THEN Err(AuthenticationFailed)
    ELSE NoResult

\* what one pass of the loop body does after the poll's round trip:
\* the result it breaks with, or NoResult when it goes on to the sleep
PollStep(r) ==
    IF ~r.ok
    THEN Err(NetworkError("transport"))
    ELSE IF IsSuccess(r.status)
    THEN IF ParseToken(r.body) = ParseFail
         THEN Err(NetworkError("decode"))
         ELSE Ok(ParseToken(r.body))
    ELSE IF ParseError(r.body) = ParseFail
    THEN Err(UnexpectedResponse(DecodeErrorString(r.body)))
    ELSE IF ParseError(r.body).error # "AuthorizationPending"
    THEN Err(AuthenticationFailed)
    ELSE NoResult

\* the 2xx branch stores the token but does not break out of the loop
Poll_NoBreakOnOk(r) ==
    /\ pc = "poll"
    /\ Len(pollResults) < MaxPolls
    /\ log' = Append(log, PollReqEvent(AuthenticationRequestFrom(resp)))
    /\ pollResults' = Append(pollResults, r)
    /\ result' = PollStep(r)
    /\ pc' = IF PollStep(r).tag = "Err" THEN "done" ELSE "sleep"
    /\ UNCHANGED <<resp, poll_interval, dcResult, cancelAt, store, flows>>

\* auth.rs 151-173: one poll round trip and the handling of its answer
Poll(r) ==
    /\ pc = "poll"
    /\ Len(pollResults) < MaxPolls
    /\ log' = Append(log, PollReqEvent(AuthenticationRequestFrom(resp)))
    /\ pollResults' = Append(pollResults, r)
    /\ result' = PollStep(r)
    /\ pc' = IF PollStep(r) = NoResult THEN "sleep" ELSE "done"
    /\ UNCHANGED <<resp, poll_interval, dcResult, cancelAt, store, flows>>

\* the sleep takes the challenge's expires_in for its duration
Sleep_ForExpiresIn ==
    /\ pc = "sleep"
    /\ log' = Append(log, SleepEvent(resp.expires_in))
    /\ pc' = "poll"
    /\ UNCHANGED <<resp, poll_interval, result, dcResult, pollResults,
                   cancelAt, store, flows>>

\* auth.rs 174: tokio::time::sleep(poll_interval).await, then loop
Sleep ==
    /\ pc = "sleep"
    /\ log' = Append(log, SleepEvent(poll_interval))
    /\ pc' = "poll"
    /\ UNCHANGED <<resp, poll_interval, result, dcResult, pollResults,
                   cancelAt, store, flows>>

\* authenticate(), as main calls it: the token record the flow returned is
\* handed to the credential store, once
StoreToken ==
    /\ pc = "done"
    /\ result.tag = "Ok"
    /\ store = <<>>
    /\ store' = Append(store, result.value)
    /\ UNCHANGED <<pc, resp, poll_interval, result, log, dcResult,
                   pollResults, cancelAt, flows>>

\* the caller gives up on a flow that has not returned yet; nothing in
\* auth.rs reads the request
Cancel ==
    /\ pc # "done"
    /\ cancelAt = -1
    /\ cancelAt' = Len(log)
    /\ UNCHANGED <<pc, resp, poll_interval, result, log, dcResult,
                   pollResults, store, flows>>

Next ==
    \/ \E r \in TransportResults : RequestDeviceCode(r)
    \/ \E r \in TransportResults : Poll(r)
    \/ Sleep
    \/ Cancel
    \/ StoreToken

Spec == Init /\ [][Next]_vars

(* ---------------- several flows over one http_client ------------------ *)
\* what the transport answers to the flows: to the device-code request a
\* failure or a challenge, to a poll a failure, a token, Pending or Declined
FlowDcResults ==
    {TransportFailure} \cup [ok : {TRUE}, status : {200}, body : ChallengeBodies]
FlowPollResults ==
    {TransportFailure}
    \cup [ok : {TRUE}, status : {200}, body : TokenBodies]
    \cup [ok : {TRUE}, status : {400},
          body : [kind : {"error"},
                  error : {"authorization_pending", "authorization_declined"},
                  complete : {TRUE}]]

\* a challenge kept in one place for all flows: the first flow's that has one
FlowChallenge_Shared(f) ==
    flows[CHOOSE g \in Flows :
            /\ flows[g].resp # NoChallenge
            /\ \A h \in Flows : flows[h].resp # NoChallenge => g <= h].resp

\* auth.rs 149: the poll request borrows from resp, a local of the call
FlowChallenge(f) == flows[f].resp

\* auth.rs 128-149 in flow f
FlowRequestDeviceCode(f, r) ==
    /\ flows[f].pc = "start"
    /\ flows' = [flows EXCEPT ![f] =
         IF ~r.ok
         THEN [@ EXCEPT !.log = Append(@, DcReqEvent), !.dcResult = r,
                        !.result = Err(NetworkError("transport")),
                        !.pc = "done"]
         ELSE IF ~IsSuccess(r.status)
         THEN [@ EXCEPT !.log = Append(@, DcReqEvent), !.dcResult = r,
                        !.result = Err(UnexpectedResponse(Text(r.body))),
                        !.pc = "done"]
         ELSE IF ParseChallenge(r.body) = ParseFail
         THEN [@ EXCEPT !.log = Append(@, DcReqEvent), !.dcResult = r,
                        !.result = Err(NetworkError("decode")),
                        !.pc = "done"]
         ELSE [@ EXCEPT !.log = Append(@, DcReqEvent), !.dcResult = r,
                        !.resp = ParseChallenge(r.body),
                        !.poll_interval = ParseChallenge(r.body).interval,
                        !.pc = "poll"]]
    /\ UNCHANGED <<pc, resp, poll_interval, result, log, dcResult,
                   pollResults, cancelAt, store>>

\* auth.rs 151-173 in flow f
FlowPoll(f, r) ==
    /\ flows[f].pc = "poll"
    /\ Len(flows[f].pollResults) < MaxFlowPolls
    /\ flows' = [flows EXCEPT ![f] =
         [@ EXCEPT !.log = Append(@, PollReqEvent(
                                 AuthenticationRequestFrom(FlowChallenge(f)))),
                   !.pollResults = Append(@, r),
                   !.result = PollStep(r),
                   !.pc = IF PollStep(r) = NoResult THEN "sleep" ELSE "done"]]
    /\ UNCHANGED <<pc, resp, poll_interval, result, log, dcResult,
                   pollResults, cancelAt, store>>

\* auth.rs 174 in flow f
FlowSleep(f) ==
    /\ flows[f].pc = "sleep"
    /\ flows' = [flows EXCEPT ![f] =
         [@ EXCEPT !.log = Append(@, SleepEvent(flows[f].poll_interval)),
                   !.pc = "poll"]]
    /\ UNCHANGED <<pc, resp, poll_interval, result, log, dcResult,
                   pollResults, cancelAt, store>>

\* the flows are tasks of one runtime: any of them takes the next step
NextFlows ==
    \/ \E f \in Flows : \E r \in FlowDcResults : FlowRequestDeviceCode(f, r)
    \/ \E f \in Flows : \E r \in FlowPollResults : FlowPoll(f, r)
    \/ \E f \in Flows : FlowSleep(f)

SpecFlows == Init /\ [][NextFlows]_vars

(* ------------------- vocabulary of the properties ---------------------- *)
\* the classification of one poll answer into an AuthorizationOutcome
Outcome(r) ==
    IF ~r.ok THEN "TransportError"
    ELSE IF IsSuccess(r.status)
    THEN (IF ParseToken(r.body) = ParseFail THEN "Unclassified" ELSE "Success")
    ELSE IF r.body.kind = "error" /\ r.body.complete
            /\ r.body.error \in KnownErrorCodes
    THEN (CASE r.body.error = "authorization_pending" -> "Pending"
            [] r.body.error = "authorization_declined" -> "Declined"
            [] r.body.error = "bad_verification_code" -> "BadVerificationCode"
            [] r.body.error = "expired_token" -> "Expired")
    ELSE "Unclassified"

NPolls == Len(pollResults)
LastPoll == pollResults[NPolls]
PollReqIdx == {i \in 1..Len(log) : log[i].ev = "poll_req"}
SleepIdx == {i \in 1..Len(log) : log[i].ev = "sleep"}
DcReqIdx == {i \in 1..Len(log) : log[i].ev = "dc_req"}

\* seconds slept in the first k events of the log
RECURSIVE SleptUpTo(_)
SleptUpTo(k) == IF k = 0 THEN 0 ELSE SleptUpTo(k - 1) + log[k].secs

\* ceil(e / i) for i >= 1
CeilDiv(e, i) == (e + i - 1) \div i

\* a non-2xx answer carrying a well-formed error object with the given code
RejectionWith(code) ==
    [ok |-> TRUE, status |-> 400,
     body |-> [kind |-> "error", error |-> code, complete |-> TRUE]]

(* ------------------------------- C1 ------------------------------------ *)
\* C1: the only poll outcome after which another poll request is sent is
\* Pending: every answered poll but the last one was Pending, and a last
\* answer that is not Pending leaves the flow returned (terminal), with the
\* poll request as the last thing it did.
C1_OnlyPendingLoops ==
    /\ \A i \in 1..(NPolls - 1) : Outcome(pollResults[i]) = "Pending"
    /\ Cardinality(PollReqIdx) = NPolls
    /\ (NPolls > 0 /\ Outcome(LastPoll) # "Pending")
         => /\ pc = "done"
            /\ result # NoResult
            /\ log[Len(log)].ev = "poll_req"

C1_Witness ==
    /\ NPolls >= 2
    /\ Outcome(LastPoll) = "Expired"
    /\ pc = "done"

(* ------------------------------- C2 ------------------------------------ *)
\* C2: when the polls were answered Pending N times and then Success, the
\* flow sent exactly N+1 poll requests, slept exactly N times, each time
\* for the challenge's interval, one sleep after each Pending poll and none
\* before the first poll or after the last, and returned Ok with the token
\* record of the final response.
C2_PendingThenSuccess ==
    (NPolls > 0 /\ Outcome(LastPoll) = "Success"
       /\ \A i \in 1..(NPolls - 1) : Outcome(pollResults[i]) = "Pending")
    => /\ Cardinality(PollReqIdx) = NPolls
       /\ Cardinality(SleepIdx) = NPolls - 1
       /\ Len(log) = 2 * NPolls
       /\ \A k \in 1..NPolls : log[2 * k].ev = "poll_req"
       /\ \A k \in 1..(NPolls - 1) :
             log[2 * k + 1].ev = "sleep" /\ log[2 * k + 1].secs = resp.interval
       /\ pc = "done"
       /\ result = Ok([access_token |-> LastPoll.body.access_token])

C2_Witness ==
    /\ NPolls = 3
    /\ Outcome(LastPoll) = "Success"
    /\ resp.interval = 2
    /\ resp.expires_in = 1
    /\ result.tag = "Ok"

(* ------------------------------- C3 ------------------------------------ *)
\* C3: for a challenge with interval I >= 1 and expires_in E the flow sends
\* at most ceil(E / I) poll requests.
C3_PollsBoundedByExpiry ==
    (pc # "start" /\ resp.interval >= 1)
    => Cardinality(PollReqIdx) <= CeilDiv(resp.expires_in, resp.interval)

(* ------------------------------- C4 ------------------------------------ *)
\* C4: polling stops no later than expires_in seconds after the challenge
\* was issued: no poll request is sent once the flow has slept for more
\* than expires_in seconds, and a flow that has slept that long has ended.
C4_StopsByDeadline ==
    /\ \A k \in PollReqIdx : SleptUpTo(k) <= resp.expires_in
    /\ (pc \in {"poll", "sleep"} => SleptUpTo(Len(log)) <= resp.expires_in)

(* ------------------------------- C5 ------------------------------------ *)
\* C5: when the first poll is answered Declined, the flow has returned its
\* rejection error after exactly one poll request, with no sleep and no
\* further request.
C5_DeclinedOnFirstPoll ==
    (NPolls >= 1 /\ Outcome(pollResults[1]) = "Declined")
    => /\ NPolls = 1
       /\ log = <<DcReqEvent, PollReqEvent(AuthenticationRequestFrom(resp))>>
       /\ pc = "done"
       /\ result = Err(AuthenticationFailed)

C5_Witness ==
    /\ NPolls = 1
    /\ pollResults[1] = RejectionWith("authorization_declined")
    /\ result.tag = "Err"

(* ------------------------------- C6 ------------------------------------ *)
\* C6: the returned error tells the provider's rejections apart: a flow
\* ended by one of authorization_declined, bad_verification_code and
\* expired_token returns a value that neither of the other two codes would
\* have produced.
C6_RejectionsDistinguished ==
    (NPolls > 0 /\ pc = "done"
       /\ Outcome(LastPoll) \in {"Declined", "BadVerificationCode", "Expired"})
    => \A code \in {"authorization_declined", "bad_verification_code",
                    "expired_token"} :
          code # LastPoll.body.error => PollStep(RejectionWith(code)) # result

(* ------------------------------- C7 ------------------------------------ *)
\* C7: a non-2xx poll answer whose error code is none of the four known
\* ones is the last poll of the flow: the flow has returned
\* UnexpectedResponse, and neither a sleep nor another poll follows it.
C7_UnknownCodeIsTerminal ==
    \A i \in 1..NPolls :
        (/\ pollResults[i].ok
         /\ ~IsSuccess(pollResults[i].status)
         /\ pollResults[i].body.kind = "error"
         /\ pollResults[i].body.error \notin KnownErrorCodes)
        => /\ i = NPolls
           /\ Outcome(pollResults[i]) = "Unclassified"
           /\ pc = "done"
           /\ result.tag = "Err"
           /\ result.value.kind = "UnexpectedResponse"
           /\ log[Len(log)].ev = "poll_req"
           /\ Cardinality(SleepIdx) = NPolls - 1

C7_Witness ==
    /\ NPolls = 2
    /\ LastPoll.ok
    /\ LastPoll.status = 400
    /\ LastPoll.body = [kind |-> "error", error |-> "slow_down", complete |-> TRUE]
    /\ pc = "done"

(* ------------------------------- C8 ------------------------------------ *)
\* C8: a non-2xx poll answer whose body is not JSON makes the flow return
\* UnexpectedResponse carrying the raw response text, and it is the last
\* poll of the flow.
C8_MalformedErrorBodyRawText ==
    \A i \in 1..NPolls :
        (/\ pollResults[i].ok
         /\ ~IsSuccess(pollResults[i].status)
         /\ pollResults[i].body.kind = "garbage")
        => /\ i = NPolls
           /\ pc = "done"
           /\ result = Err(UnexpectedResponse(Text(pollResults[i].body)))

(* ------------------------------- C9 ------------------------------------ *)
\* C9: a device-code answer with a non-2xx status, or with a 2xx status and
\* a body that is not a challenge, ends the flow with
\* UnexpectedResponse(raw body), and no poll request is sent.
C9_DeviceCodeFailureUnexpected ==
    (/\ pc # "start"
     /\ dcResult.ok
     /\ (~IsSuccess(dcResult.status) \/ ParseChallenge(dcResult.body) = ParseFail))
    => /\ pc = "done"
       /\ result = Err(UnexpectedResponse(Text(dcResult.body)))
       /\ log = <<DcReqEvent>>
       /\ NPolls = 0

C11_CancelStopsFlow ==
    cancelAt >= 0
    => /\ \A k \in PollReqIdx : k <= cancelAt
       /\ \A k \in SleepIdx : k <= cancelAt

(* ------------------------------- C12 ----------------------------------- *)
\* C12: with several flows over one http_client, in every interleaving
\* each poll request of a flow carries the device_code of the challenge
\* that same flow was given, each of its sleeps lasts that challenge's
\* interval, and a flow has returned exactly when its own requests decided
\* so: what another flow was answered changes nothing in it.
C12_FlowsArePrivate ==
    \A f \in Flows :
        LET F == flows[f] IN
        /\ \A k \in 1..Len(F.log) :
              /\ F.log[k].ev = "poll_req"
                   => /\ F.dcResult.ok
                      /\ F.log[k].form.device_code = F.dcResult.body.device_code
              /\ F.log[k].ev = "sleep"
                   => F.log[k].secs = F.dcResult.body.interval
        /\ \A i \in 1..(Len(F.pollResults) - 1) :
              Outcome(F.pollResults[i]) = "Pending"
        /\ F.pc = "done"
             <=> \/ (F.log # <<>> /\ ~F.dcResult.ok)
                 \/ /\ F.pollResults # <<>>
                    /\ Outcome(F.pollResults[Len(F.pollResults)]) # "Pending"

C12_Witness ==
    /\ flows[1].resp.device_code = "dc1"
    /\ flows[2].resp.device_code = "dc2"
    /\ flows[1].resp.interval = 1
    /\ flows[2].resp.interval = 2
    /\ flows[1].result = Err(AuthenticationFailed)
    /\ Len(flows[1].pollResults) = 2
    /\ Len(flows[2].pollResults) = 2
    /\ flows[2].pc = "sleep"

C14_PacedByInterval ==
    /\ \A k \in PollReqIdx : \A k2 \in PollReqIdx :
          (k < k2 /\ \A j \in PollReqIdx : ~(k < j /\ j < k2))
          => /\ k2 = k + 2
             /\ log[k + 1].ev = "sleep"
             /\ log[k + 1].secs = dcResult.body.interval
    /\ (pc \in {"poll", "sleep"} \/ NPolls > 0)
         => /\ resp.interval = dcResult.body.interval
            /\ poll_interval = resp.interval

C14_Witness ==
    /\ NPolls = 3
    /\ dcResult.body.interval = 1
    /\ pc = "sleep"

(* ------------------------------- C15 ----------------------------------- *)
\* C15: a 2xx poll answer whose body is not a token record ends the flow
\* with UnexpectedResponse, and it is the last poll of the flow.
C15_BadTokenBodyUnexpected ==
    \A i \in 1..NPolls :
        (/\ pollResults[i].ok
         /\ IsSuccess(pollResults[i].status)
         /\ ParseToken(pollResults[i].body) = ParseFail)
        => /\ i = NPolls
           /\ pc = "done"
           /\ result.tag = "Err"
           /\ result.value.kind = "UnexpectedResponse"

(* ------------------------------- C16 ----------------------------------- *)
\* C16: the flow sends exactly one device-code request, as the first thing
\* it does; it sends a poll request only after a 2xx device-code answer
\* that parsed as a challenge, and every poll request carries that
\* challenge's device_code, the configured client_id and the grant type
\* urn:ietf:params:oauth:grant-type:device_code.
C16_OneChallengePerFlow ==
    /\ pc # "start" => (DcReqIdx = {1} /\ log[1].form.client_id = CLIENT_ID)
    /\ pc = "start" => log = <<>>
    /\ PollReqIdx # {}
         => /\ dcResult.ok
            /\ IsSuccess(dcResult.status)
            /\ dcResult.body.kind = "challenge"
    /\ \A k \in PollReqIdx :
          log[k].form =
              [client_id |-> "c85cbdd1-4823-4bc8-b02e-2f3f7caa9dd7",
               device_code |-> dcResult.body.device_code,
               grant_type |-> "urn:ietf:params:oauth:grant-type:device_code"]

C16_Witness ==
    /\ Cardinality(PollReqIdx) = 3
    /\ dcResult.body.device_code = "dc2"
    /\ log[Len(log)].ev = "poll_req"
    /\ log[Len(log)].form.device_code = "dc2"

(* ------------------------------- C17 ----------------------------------- *)
\* C17: the challenge the flow polls with has an interval of at least one
\* second, and no sleep of the poll loop has length zero.
C17_IntervalAtLeastOne ==
    /\ PollReqIdx # {} => resp.interval >= 1
    /\ \A k \in SleepIdx : log[k].secs >= 1

(* ------------------------------- C18 ----------------------------------- *)
\* C18: the flow has returned Ok only if its last request was a poll
\* request answered with a 2xx status and a body that parsed as a token
\* record, which is the value returned; a poll answered with a non-2xx
\* status never gives Ok, whatever its body.
C18_OkOnlyFromSuccessPoll ==
    /\ result.tag = "Ok"
         => /\ NPolls > 0
            /\ pc = "done"
            /\ log[Len(log)].ev = "poll_req"
            /\ LastPoll.ok
            /\ IsSuccess(LastPoll.status)
            /\ LastPoll.body.kind = "token"
            /\ result.value = [access_token |-> LastPoll.body.access_token]
    /\ (NPolls > 0 /\ LastPoll.ok /\ ~IsSuccess(LastPoll.status))
         => result.tag # "Ok"

C18_Witness ==
    /\ result = Ok([access_token |-> "tokA"])
    /\ NPolls = 4
    /\ store = <<>>

====
